---- MODULE Spec2Model ----
(***************************************************************************)
(* Model of the vector-search services of Ecommerce-Dressia:               *)
(*   src/nextn/functions/vector_search_proxy/main.py   (Cloud Run proxy)   *)
(*   src/nextn/cloud_function_vector_search/main.py    (Cloud Function)    *)
(*                                                                         *)
(* Conventions.  A Python value that may be None is a sequence: <<>> is    *)
(* None and <<v>> is the value v.  A Python string that may be None is a   *)
(* string, with NoStr standing for None.  A metadata mapping is a TLA+     *)
(* function whose DOMAIN is the set of keys present; every value present   *)
(* is truthy (non-empty).  A float similarity is the exact rational        *)
(* [num, den] in lowest terms.  A feature vector is its length only: the   *)
(* code reads nothing else of it.                                          *)
(***************************************************************************)
EXTENDS Integers, Sequences, FiniteSets, TLC

VARIABLES
    SIMILARITY_THRESHOLD,   \* configuration read at import
    vector_search_client,   \* the global _vector_search_client: 0 is None, n the n-th instance built
    built,                  \* how many MatchServiceClient instances the proxy process has built
    uuids,                  \* how many uuid4() values the proxy process has drawn
    pc,                     \* per query: where vector_search_proxy stands
    req,                    \* per query: the HTTP request
    request_id,             \* per query: local request_id (0 before it is generated)
    neighbor_count,         \* per query: local neighbor_count
    client,                 \* per query: local client (0 before get_vector_search_client returns)
    calls,                  \* per query: find_neighbors calls made
    sent,                   \* per query: neighbor_count of each FindNeighborsRequest sent
    upstream,               \* per query: what find_neighbors produced
    resp,                   \* per query: the tuple the handler returned
    fnRequests,             \* Cloud Function process: requests handled
    fnReq,                  \* Cloud Function process: the last request
    fnBuilt,                \* Cloud Function process: MatchServiceClient instances built
    fnResp                  \* Cloud Function process: the last response

vars == <<SIMILARITY_THRESHOLD, vector_search_client, built, uuids, pc, req,
          request_id, neighbor_count, client, calls, sent, upstream, resp,
          fnRequests, fnReq, fnBuilt, fnResp>>

proxyVars == <<SIMILARITY_THRESHOLD, vector_search_client, built, uuids, pc, req,
               request_id, neighbor_count, client, calls, sent, upstream, resp>>

fnVars == <<fnRequests, fnReq, fnBuilt, fnResp>>

-----------------------------------------------------------------------------
(* Bounds of the model *)

MaxQueries == 2
MaxReturned == 3
MaxFnRequests == 2

(* Program constants *)

EXPECTED_DIMENSIONS == 1408
MAX_NEIGHBORS == 20
DEFAULT_NEIGHBOR_COUNT == 10

-----------------------------------------------------------------------------
(* Values *)

None == <<>>
Some(v) == <<v>>
NoStr == "<None>"

Min(a, b) == IF a <= b THEN a ELSE b
Max(a, b) == IF a >= b THEN a ELSE b
Abs(x) == IF x < 0 THEN -x ELSE x

RECURSIVE Gcd(_, _)
Gcd(a, b) == IF b = 0 THEN a ELSE Gcd(b, a % b)

Rat(n, d) == LET g == Gcd(n, d) IN [num |-> n \div g, den |-> d \div g]
RatLt(a, b) == a.num * b.den < b.num * a.den
RatMul(a, b) == Rat(a.num * b.num, a.den * b.den)
Zero == Rat(0, 1)

\* str(x).lower() on the colour vocabulary of the model
Lower(s) ==
    CASE s \in {"Red", "RED", "red"} -> "red"
      [] s \in {"Blue", "blue"} -> "blue"
      [] OTHER -> s

Get(m, k) == IF k \in DOMAIN m THEN m[k] ELSE NoStr
Put(m, k, v) == [x \in DOMAIN m \cup {k} |-> IF x = k THEN v ELSE m[x]]

-----------------------------------------------------------------------------
(* Pure functions of vector_search_proxy/main.py *)

Truthy(m, k) == k \in DOMAIN m

EmptyMeta == <<>>

\* 1 / (1 + abs(distance)), 0.0 for a distance of None
normalize_similarity(distance) ==
    IF distance = None THEN Zero ELSE Rat(1, 1 + Abs(distance[1]))

\* for k in (...): if not out.get(k) and raw_meta and raw_meta.get(k): out[k] = raw_meta.get(k)
RECURSIVE CopyMissing(_, _, _)
CopyMissing(out, raw_meta, keys) ==
    IF keys = <<>> THEN out
    ELSE LET k == Head(keys)
             out2 == IF ~Truthy(out, k) /\ Truthy(raw_meta, k)
                     THEN Put(out, k, raw_meta[k]) ELSE out
         IN CopyMissing(out2, raw_meta, Tail(keys))

\* for pid_key in (...): if not out.get("product_id") and raw_meta and raw_meta.get(pid_key): ...
RECURSIVE NormalizeProductId(_, _, _)
NormalizeProductId(out, raw_meta, keys) ==
    IF keys = <<>> THEN out
    ELSE LET pid_key == Head(keys)
             out2 == IF ~Truthy(out, "product_id") /\ Truthy(raw_meta, pid_key)
                     THEN Put(out, "product_id", raw_meta[pid_key]) ELSE out
         IN NormalizeProductId(out2, raw_meta, Tail(keys))

UriKeys == <<"gcs_uri", "gs_uri", "uri", "image_url", "url", "filename", "file", "path">>
PidKeys == <<"productId", "product_id", "productid">>

\* the colour branch: color_info if present, else the flat colour fields
CopyColor(out, raw_meta) ==
    IF Truthy(raw_meta, "color_info")
    THEN Put(out, "color_info", raw_meta["color_info"])
    ELSE LET o1 == IF Truthy(raw_meta, "color")
                   THEN Put(out, "color", raw_meta["color"]) ELSE out
         IN IF Truthy(raw_meta, "color_confidence")
            THEN Put(o1, "color_confidence", raw_meta["color_confidence"]) ELSE o1

extract_metadata_from_datapoint(datapoint) ==
    LET raw_meta == datapoint.metadata
        out0 == raw_meta          \* out.update({k: v for k, v in raw_meta.items()})
        out1 == CopyMissing(out0, raw_meta, UriKeys)
        out2 == NormalizeProductId(out1, raw_meta, PidKeys)
    IN CopyColor(out2, raw_meta)

\* a or b on strings that may be None
OrStr(a, b) == IF a # NoStr THEN a ELSE b

\* metadata and dp_id of one neighbor
NeighborMetadata(neighbor) ==
    IF neighbor.datapoint # None
    THEN extract_metadata_from_datapoint(neighbor.datapoint[1])
    ELSE EmptyMeta

NeighborDpId(neighbor) ==
    IF neighbor.datapoint # None
    THEN neighbor.datapoint[1].datapoint_id     \* dp.datapoint_id or dp.id (no id on a datapoint)
    ELSE neighbor.id                            \* neighbor.datapoint_id or neighbor.id

PENALTY == Rat(4, 5)

\* the colour bias
ColorBias(similarity, metadata, input_color) ==
    IF input_color # NoStr /\ Truthy(metadata, "color")
    THEN IF Lower(metadata["color"]) # Lower(input_color)
         THEN RatMul(similarity, PENALTY) ELSE similarity
    ELSE similarity

\* faulty variant of Keep: the test written as similarity <= threshold
KeepStrict(similarity, threshold) == RatLt(threshold, similarity)

\* the threshold test: a candidate is kept unless similarity < SIMILARITY_THRESHOLD
Keep(similarity, threshold) == ~RatLt(similarity, threshold)

\* color info normalization of a kept candidate
ColorInfo(metadata) ==
    IF Truthy(metadata, "color_info")
    THEN Some([dominant_color |-> metadata["color_info"].dominant_color])
    ELSE IF Truthy(metadata, "color")
         THEN Some([dominant_color |-> metadata["color"]])
         ELSE None

\* the dict appended to results; idx (the position in the upstream list) is a ghost field
ResultEntry(neighbor, idx, similarity, metadata) ==
    [id |-> OrStr(NeighborDpId(neighbor), neighbor.id),
     distance |-> neighbor.distance,
     similarity |-> similarity,
     color_info |-> ColorInfo(metadata),
     metadata |-> metadata,
     idx |-> idx]

\* the for loop over neighbors, from position i on
RECURSIVE ScoreLoop(_, _, _, _, _)
ScoreLoop(neighbors, i, input_color, threshold, acc) ==
    IF i > Len(neighbors) THEN acc
    ELSE LET neighbor == neighbors[i]
             metadata == NeighborMetadata(neighbor)
             similarity == ColorBias(normalize_similarity(neighbor.distance),
                                     metadata, input_color)
             counted == [acc EXCEPT !.total_before_filter = @ + 1]
         IN IF ~Keep(similarity, threshold)
            THEN ScoreLoop(neighbors, i + 1, input_color, threshold, counted)
            ELSE ScoreLoop(neighbors, i + 1, input_color, threshold,
                     [counted EXCEPT
                         !.total_after_filter = @ + 1,
                         !.results = Append(@, ResultEntry(neighbor, i, similarity, metadata))])

\* list.sort(key=similarity, reverse=True): descending and stable
RECURSIVE InsertDesc(_, _)
InsertDesc(sorted, e) ==
    IF sorted = <<>> THEN <<e>>
    ELSE IF RatLt(Head(sorted).similarity, e.similarity)
         THEN <<e>> \o sorted
         ELSE <<Head(sorted)>> \o InsertDesc(Tail(sorted), e)

RECURSIVE SortFrom(_, _)
SortFrom(sorted, rest) ==
    IF rest = <<>> THEN sorted ELSE SortFrom(InsertDesc(sorted, Head(rest)), Tail(rest))

RECURSIVE Reverse(_)
Reverse(xs) == IF xs = <<>> THEN <<>> ELSE Append(Reverse(Tail(xs)), Head(xs))

\* faulty variant of SortResults: an ascending sort followed by reverse(), which turns ties around
SortAscendingReversed(results) == SortFrom(<<>>, Reverse(results))

SortResults(results) == SortFrom(<<>>, results)

\* what the handler returns
Response(status, rid, isError, results, before, after) ==
    [status |-> status, requestId |-> rid, error |-> isError, results |-> results,
     topK |-> Len(results), resultsBeforeFilter |-> before, resultsAfterFilter |-> after]

NoResponse == Response(0, 0, FALSE, <<>>, 0, 0)

ErrorResponse(status, rid) == Response(status, rid, TRUE, <<>>, 0, 0)

\* faulty variant of UpstreamFailureStatus: the PermissionDenied clause missing
UpstreamFailureAlways500(kind) == 500

\* the except clauses around the external call
UpstreamFailureStatus(kind) == IF kind = "PermissionDenied" THEN 403 ELSE 500

\* reading neighbors out of the response: an unreadable group degrades to []
ReadNeighbors(out) == IF out.kind = "Unreadable" THEN <<>> ELSE out.neighbors

\* everything after the external call returned a response
PostProcess(out, rid, input_color, threshold) ==
    IF out.kind = "NoGroups"
    THEN Response(200, rid, FALSE, <<>>, 0, 0)
    ELSE LET acc == ScoreLoop(ReadNeighbors(out), 1, input_color, threshold,
                        [results |-> <<>>, total_before_filter |-> 0, total_after_filter |-> 0])
         IN Response(200, rid, FALSE, SortResults(acc.results),
                     acc.total_before_filter, acc.total_after_filter)

\* faulty variant of Clamp: the lower bound missing
ClampUpperOnly(n) == Min(n, MAX_NEIGHBORS)

\* max(1, min(neighbor_count, MAX_NEIGHBORS))
Clamp(n) == Max(1, Min(n, MAX_NEIGHBORS))

\* int(request_json.get("neighbor_count", 10))
RequestedCount(json) ==
    IF json.neighbor_count = None THEN DEFAULT_NEIGHBOR_COUNT ELSE json.neighbor_count[1]

\* not feature_vector or len(feature_vector) != EXPECTED_DIMENSIONS
InvalidVector(feature_vector) ==
    feature_vector = None \/ feature_vector[1] = 0 \/ feature_vector[1] # EXPECTED_DIMENSIONS

-----------------------------------------------------------------------------
(* Inputs: HTTP requests and what the external index service answers *)

\* A body is None or an object; a key that is absent is None (an empty object reads
\* like a body with every key absent), and neighbor_count, when present, is an integer.
Json(fv, nc, color) == Some([feature_vector |-> fv, neighbor_count |-> nc, color |-> color])

HttpRequest(method, json) == [method |-> method, json |-> json]

VectorLengths == {None, Some(0), Some(EXPECTED_DIMENSIONS - 1), Some(EXPECTED_DIMENSIONS)}

RequestedCounts == {None, Some(-3), Some(0), Some(1), Some(2), Some(MAX_NEIGHBORS + 1), Some(1000)}

ColorHints == {NoStr, "Red", "blue"}

\* every request of the single-query specification
Requests ==
    {HttpRequest("OPTIONS", None), HttpRequest("POST", None)}
    \cup {HttpRequest("POST", Json(fv, nc, c)) :
             fv \in VectorLengths, nc \in RequestedCounts, c \in ColorHints}

\* the requests of the concurrent specification
FewRequests ==
    {HttpRequest("OPTIONS", None), HttpRequest("POST", None)}
    \cup {HttpRequest("POST", Json(fv, nc, NoStr)) :
             fv \in {None, Some(EXPECTED_DIMENSIONS)}, nc \in {None, Some(0)}}

Datapoint(id, metadata) == Some([datapoint_id |-> id, metadata |-> metadata])

Neighbor(datapoint, id, distance) == [datapoint |-> datapoint, id |-> id, distance |-> distance]

Nested(color) == [dominant_color |-> color]

\* the candidates the index service can return
Candidates ==
    { Neighbor(Datapoint("a", EmptyMeta), "a", Some(0)),
      Neighbor(Datapoint("b", EmptyMeta), "b", None),
      Neighbor(Datapoint(NoStr, EmptyMeta), NoStr, Some(1)),
      Neighbor(None, NoStr, Some(-1)),
      Neighbor(Datapoint("c", [color |-> "Blue"]), "c", Some(-1)),
      Neighbor(Datapoint("d", [color |-> "RED"]), "d", Some(3)),
      Neighbor(Datapoint("e", [color_info |-> Nested("Blue")]), "e", Some(3)),
      Neighbor(Datapoint("f", [color_info |-> Nested("red"), color |-> "Blue"]), "f", Some(4)),
      Neighbor(Datapoint("g", [productId |-> "A", product_id |-> "B", productid |-> "C"]), "g", Some(1)),
      Neighbor(Datapoint("h", [productId |-> "A", productid |-> "C"]), "h", Some(4)),
      Neighbor(Datapoint("i", [productid |-> "C"]), "i", Some(0)) }

FewCandidates ==
    { Neighbor(Datapoint("a", EmptyMeta), "a", Some(0)),
      Neighbor(Datapoint(NoStr, EmptyMeta), NoStr, Some(1)) }

RECURSIVE SeqsUpTo(_, _)
SeqsUpTo(S, n) ==
    IF n = 0 THEN {<<>>}
    ELSE LET shorter == SeqsUpTo(S, n - 1)
         IN shorter \cup {Append(q, x) : q \in {r \in shorter : Len(r) = n - 1}, x \in S}

Outcome(kind, neighbors) == [kind |-> kind, neighbors |-> neighbors]

FailureKinds == {"PermissionDenied", "Exception"}

\* find_neighbors raises, or returns no group, an unreadable group, or a list of neighbors
OutcomesOver(pool, n) ==
    {Outcome(k, <<>>) : k \in FailureKinds \cup {"NoGroups", "Unreadable"}}
    \cup {Outcome("Neighbors", ns) : ns \in SeqsUpTo(pool, n)}

Outcomes == OutcomesOver(Candidates, MaxReturned)

FewOutcomes == OutcomesOver(FewCandidates, 1)

Thresholds == {Zero, Rat(1, 5), Rat(1, 2)}

-----------------------------------------------------------------------------
(* The proxy process: vector_search_proxy and get_vector_search_client *)

Queries == 1 .. MaxQueries

InitProxy(warm, threshold) ==
    /\ SIMILARITY_THRESHOLD = threshold
    /\ vector_search_client = IF warm THEN 1 ELSE 0
    /\ built = IF warm THEN 1 ELSE 0
    /\ uuids = 0
    /\ pc = [q \in Queries |-> "idle"]
    /\ req = [q \in Queries |-> HttpRequest("OPTIONS", None)]
    /\ request_id = [q \in Queries |-> 0]
    /\ neighbor_count = [q \in Queries |-> 0]
    /\ client = [q \in Queries |-> 0]
    /\ calls = [q \in Queries |-> 0]
    /\ sent = [q \in Queries |-> <<>>]
    /\ upstream = [q \in Queries |-> Outcome("NotCalled", <<>>)]
    /\ resp = [q \in Queries |-> NoResponse]

InitFn ==
    /\ fnRequests = 0
    /\ fnReq = HttpRequest("OPTIONS", None)
    /\ fnBuilt = 0
    /\ fnResp = [status |-> 0, results |-> <<>>]

\* the handler up to the validation and the clamp
Receive(q, r) ==
    /\ pc[q] = "idle"
    /\ req' = [req EXCEPT ![q] = r]
    /\ IF r.method = "OPTIONS"
       THEN /\ resp' = [resp EXCEPT ![q] = Response(204, 0, FALSE, <<>>, 0, 0)]
            /\ pc' = [pc EXCEPT ![q] = "done"]
            /\ UNCHANGED <<uuids, request_id, neighbor_count>>
       ELSE IF r.json = None
       THEN \* request_json.get("color") on None raises AttributeError out of the handler
            /\ neighbor_count' = [neighbor_count EXCEPT ![q] = DEFAULT_NEIGHBOR_COUNT]
            /\ pc' = [pc EXCEPT ![q] = "raised"]
            /\ UNCHANGED <<uuids, request_id, resp>>
       ELSE LET json == r.json[1]
                rid == uuids + 1
            IN /\ uuids' = rid
               /\ request_id' = [request_id EXCEPT ![q] = rid]
               /\ IF InvalidVector(json.feature_vector)
                  THEN /\ neighbor_count' = [neighbor_count EXCEPT ![q] = RequestedCount(json)]
                       /\ resp' = [resp EXCEPT ![q] = ErrorResponse(400, rid)]
                       /\ pc' = [pc EXCEPT ![q] = "done"]
                  ELSE /\ neighbor_count' = [neighbor_count EXCEPT ![q] = Clamp(RequestedCount(json))]
                       /\ pc' = [pc EXCEPT ![q] = "get_client"]
                       /\ UNCHANGED resp
    /\ UNCHANGED <<SIMILARITY_THRESHOLD, vector_search_client, built, client, calls,
                   sent, upstream>>
    /\ UNCHANGED fnVars

\* get_vector_search_client: if _vector_search_client is None
CheckClient(q) ==
    /\ pc[q] = "get_client"
    /\ pc' = [pc EXCEPT ![q] = IF vector_search_client = 0 THEN "construct" ELSE "return_client"]
    /\ UNCHANGED <<SIMILARITY_THRESHOLD, vector_search_client, built, uuids, req,
                   request_id, neighbor_count, client, calls, sent, upstream, resp>>
    /\ UNCHANGED fnVars

\* get_vector_search_client: the constructor runs and the global is assigned, or it raises
Construct(q, ok) ==
    /\ pc[q] = "construct"
    /\ IF ok
       THEN /\ built' = built + 1
            /\ vector_search_client' = built + 1
            /\ pc' = [pc EXCEPT ![q] = "return_client"]
            /\ UNCHANGED resp
       ELSE /\ resp' = [resp EXCEPT ![q] = ErrorResponse(UpstreamFailureStatus("Exception"), request_id[q])]
            /\ pc' = [pc EXCEPT ![q] = "done"]
            /\ UNCHANGED <<built, vector_search_client>>
    /\ UNCHANGED <<SIMILARITY_THRESHOLD, uuids, req, request_id, neighbor_count, client,
                   calls, sent, upstream>>
    /\ UNCHANGED fnVars

\* get_vector_search_client: return _vector_search_client
ReturnClient(q) ==
    /\ pc[q] = "return_client"
    /\ client' = [client EXCEPT ![q] = vector_search_client]
    /\ pc' = [pc EXCEPT ![q] = "find_neighbors"]
    /\ UNCHANGED <<SIMILARITY_THRESHOLD, vector_search_client, built, uuids, req,
                   request_id, neighbor_count, calls, sent, upstream, resp>>
    /\ UNCHANGED fnVars

\* client.find_neighbors(request=request_obj) and everything after it
FindNeighbors(q, out) ==
    /\ pc[q] = "find_neighbors"
    /\ Len(out.neighbors) <= neighbor_count[q]
    /\ calls' = [calls EXCEPT ![q] = @ + 1]
    /\ sent' = [sent EXCEPT ![q] = Append(@, neighbor_count[q])]
    /\ upstream' = [upstream EXCEPT ![q] = out]
    /\ resp' = [resp EXCEPT ![q] =
                  IF out.kind \in FailureKinds
                  THEN ErrorResponse(UpstreamFailureStatus(out.kind), request_id[q])
                  ELSE PostProcess(out, request_id[q], req[q].json[1].color,
                                   SIMILARITY_THRESHOLD)]
    /\ pc' = [pc EXCEPT ![q] = "done"]
    /\ UNCHANGED <<SIMILARITY_THRESHOLD, vector_search_client, built, uuids, req,
                   request_id, neighbor_count, client>>
    /\ UNCHANGED fnVars

-----------------------------------------------------------------------------
(* The Cloud Function process: http_vector_search and find_similar_products *)

\* the loop of find_similar_products: a neighbor without id is skipped
RECURSIVE FnResults(_)
FnResults(neighbors) ==
    IF neighbors = <<>> THEN <<>>
    ELSE LET neighbor == Head(neighbors)
         IN IF neighbor.id = NoStr
            THEN FnResults(Tail(neighbors))
            ELSE <<[id |-> neighbor.id, distance |-> neighbor.distance]>>
                 \o FnResults(Tail(neighbors))

\* find_similar_products: a client is built by every call, then find_neighbors is called once
find_similar_products(ctorOk, out) ==
    IF ~ctorOk \/ out.kind \in FailureKinds \cup {"Unreadable"}
    THEN [status |-> 500, results |-> <<>>]
    ELSE [status |-> 200, results |-> FnResults(out.neighbors)]

\* http_vector_search, the whole handler
HttpVectorSearch(r, ctorOk, out) ==
    /\ fnRequests < MaxFnRequests
    /\ fnRequests' = fnRequests + 1
    /\ fnReq' = r
    /\ IF r.method = "OPTIONS"
       THEN /\ fnResp' = [status |-> 204, results |-> <<>>]
            /\ UNCHANGED fnBuilt
       ELSE IF r.json = None \/ r.json[1].feature_vector = None
               \/ r.json[1].feature_vector[1] # EXPECTED_DIMENSIONS
       THEN /\ fnResp' = [status |-> 400, results |-> <<>>]
            /\ UNCHANGED fnBuilt
       ELSE /\ Len(out.neighbors) <= Max(RequestedCount(r.json[1]), 0)
            /\ fnBuilt' = IF ctorOk THEN fnBuilt + 1 ELSE fnBuilt
            /\ fnResp' = find_similar_products(ctorOk, out)
    /\ UNCHANGED proxyVars

-----------------------------------------------------------------------------
(* Specifications *)

\* one query at a time in a proxy process that is cold or has served queries before
Init ==
    /\ \E warm \in BOOLEAN, threshold \in Thresholds : InitProxy(warm, threshold)
    /\ InitFn

Next ==
    \/ pc[1] = "idle" /\ \E r \in Requests : Receive(1, r)
    \/ CheckClient(1)
    \/ \E ok \in BOOLEAN : Construct(1, ok)
    \/ ReturnClient(1)
    \/ pc[1] = "find_neighbors" /\ \E out \in Outcomes : FindNeighbors(1, out)

Spec == Init /\ [][Next]_vars

\* queries handled concurrently by the threads of one cold proxy process, and the
\* Cloud Function process beside it
InitConcurrent ==
    /\ InitProxy(FALSE, Zero)
    /\ InitFn

NextConcurrent ==
    \/ \E q \in Queries : pc[q] = "idle" /\ \E r \in FewRequests : Receive(q, r)
    \/ \E q \in Queries : CheckClient(q)
    \/ \E q \in Queries, ok \in BOOLEAN : Construct(q, ok)
    \/ \E q \in Queries : ReturnClient(q)
    \/ \E q \in Queries :
          pc[q] = "find_neighbors" /\ \E out \in FewOutcomes : FindNeighbors(q, out)
    \/ /\ fnRequests < MaxFnRequests
       /\ \E r \in FewRequests, ok \in BOOLEAN, out \in FewOutcomes :
             HttpVectorSearch(r, ok, out)

SpecConcurrent == InitConcurrent /\ [][NextConcurrent]_vars

-----------------------------------------------------------------------------
(* Vocabulary of the properties *)

Returned(q) == pc[q] = "done"
Ended(q) == pc[q] \in {"done", "raised"}
Posted(q) == Ended(q) /\ req[q].method = "POST"
Answered(q) == Returned(q) /\ resp[q].status = 200
HasBody(q) == req[q].json # None
ValidQuery(q) == HasBody(q) /\ ~InvalidVector(req[q].json[1].feature_vector)
Hint(q) == req[q].json[1].color

\* the raw candidates the external service returned to query q
Raw(q) == IF upstream[q].kind = "Neighbors" THEN upstream[q].neighbors ELSE <<>>

RawMetadata(neighbor) ==
    IF neighbor.datapoint = None THEN EmptyMeta ELSE neighbor.datapoint[1].metadata

\* the id a raw candidate resolves to, NoStr when it has none
ResolvedId(neighbor) ==
    IF neighbor.datapoint # None /\ neighbor.datapoint[1].datapoint_id # NoStr
    THEN neighbor.datapoint[1].datapoint_id
    ELSE neighbor.id

RECURSIVE FirstPresent(_, _)
FirstPresent(m, keys) ==
    IF keys = <<>> THEN NoStr
    ELSE IF Head(keys) \in DOMAIN m THEN m[Head(keys)] ELSE FirstPresent(m, Tail(keys))

\* the dominant colour of a raw candidate as color_info reports it: nested first, then flat
DominantColor(m) ==
    IF "color_info" \in DOMAIN m THEN m["color_info"].dominant_color
    ELSE IF "color" \in DOMAIN m THEN m["color"] ELSE NoStr

RatGeq(a, b) == a.num * b.den >= b.num * a.den

InResults(q, i) == \E j \in 1 .. Len(resp[q].results) : resp[q].results[j].idx = i

-----------------------------------------------------------------------------
(* Properties *)

\* C1: the external-service client is built at most once in the proxy process, and
\* every query that holds a handle holds the same one, however the queries interleave.
C1_ClientBuiltOnce ==
    /\ built <= 1
    /\ \A p, q \in Queries : client[p] # 0 /\ client[q] # 0 => client[p] = client[q]

\* C2: a request whose feature_vector is absent (no JSON body included), empty or of
\* the wrong length gets a 400 response, and find_neighbors is never called for it.
C2_InvalidVectorRejected ==
    \A q \in Queries :
        Posted(q) /\ ~ValidQuery(q) => resp[q].status = 400 /\ calls[q] = 0

C4_EveryResponseCarriesRequestId ==
    \A q \in Queries :
        Posted(q) =>
            /\ Returned(q)
            /\ resp[q].status \in {200, 400, 403, 500}
            /\ request_id[q] # 0 /\ resp[q].requestId = request_id[q]

\* C5: a raw candidate with no resolvable id never appears in results, and
\* resultsBeforeFilter counts the raw candidates that have one.
C5_NoIdDropped ==
    \A q \in Queries :
        Answered(q) =>
            /\ \A j \in 1 .. Len(resp[q].results) : resp[q].results[j].id # NoStr
            /\ resp[q].resultsBeforeFilter =
                  Cardinality({i \in 1 .. Len(Raw(q)) : ResolvedId(Raw(q)[i]) # NoStr})

\* C6: a candidate is in results iff its re-ranked similarity is >= the threshold;
\* resultsAfterFilter = number of results = topK, and resultsAfterFilter <= resultsBeforeFilter.
C6_FilterByThreshold ==
    \A q \in Queries :
        Answered(q) =>
            LET rs == resp[q].results IN
            /\ \A j \in 1 .. Len(rs) :
                  /\ rs[j].idx \in 1 .. Len(Raw(q))
                  /\ rs[j].distance = Raw(q)[rs[j].idx].distance
                  /\ RatGeq(rs[j].similarity, SIMILARITY_THRESHOLD)
            /\ \A i \in 1 .. Len(Raw(q)) :
                  InResults(q, i) <=>
                      RatGeq(ColorBias(normalize_similarity(Raw(q)[i].distance),
                                       NeighborMetadata(Raw(q)[i]), Hint(q)),
                             SIMILARITY_THRESHOLD)
            /\ \A j, k \in 1 .. Len(rs) : rs[j].idx = rs[k].idx => j = k
            /\ resp[q].resultsAfterFilter = Len(rs)
            /\ resp[q].topK = Len(rs)
            /\ resp[q].resultsAfterFilter <= resp[q].resultsBeforeFilter

C6_Witness ==
    \E q \in Queries :
        /\ Answered(q)
        /\ Len(Raw(q)) = 3
        /\ resp[q].resultsAfterFilter = 2
        /\ \E j \in 1 .. 2 : resp[q].results[j].similarity = SIMILARITY_THRESHOLD

\* C7: results is sorted by similarity, non-increasing, and candidates of equal
\* similarity keep the order in which the external service returned them.
C7_SortedStable ==
    \A q \in Queries :
        Answered(q) =>
            LET rs == resp[q].results IN
            \A j, k \in 1 .. Len(rs) :
                j < k =>
                    /\ RatGeq(rs[j].similarity, rs[k].similarity)
                    /\ rs[j].similarity = rs[k].similarity => rs[j].idx < rs[k].idx

C7_Witness ==
    \E q \in Queries :
        /\ Answered(q)
        /\ Len(resp[q].results) = 3
        /\ resp[q].results[1].idx = 3
        /\ resp[q].results[2].similarity = resp[q].results[3].similarity
        /\ resp[q].results[2].id # resp[q].results[3].id

\* C8: the similarity of a result is 0.8 times its normalized similarity when the
\* colour hint and the dominant colour its color_info reports are both present and
\* differ case-insensitively, and the normalized similarity itself otherwise.
C8_ColorPenalty ==
    \A q \in Queries :
        Answered(q) =>
            \A j \in 1 .. Len(resp[q].results) :
                LET e == resp[q].results[j]
                    base == normalize_similarity(e.distance)
                    dominant == DominantColor(RawMetadata(Raw(q)[e.idx]))
                IN /\ e.color_info = (IF dominant = NoStr THEN None
                                      ELSE Some([dominant_color |-> dominant]))
                   /\ e.similarity =
                         IF Hint(q) # NoStr /\ dominant # NoStr
                            /\ Lower(dominant) # Lower(Hint(q))
                         THEN RatMul(base, PENALTY) ELSE base

\* C9: whatever integer neighbor_count a valid query asks for, the query is not
\* rejected and the count sent to find_neighbors is max(1, min(requested, MaxNeighbors)).
C9_NeighborCountClamped ==
    \A q \in Queries :
        Posted(q) /\ ValidQuery(q) =>
            LET n == RequestedCount(req[q].json[1])
                want == IF n < 1 THEN 1 ELSE IF n > MAX_NEIGHBORS THEN MAX_NEIGHBORS ELSE n
            IN /\ resp[q].status # 400
               /\ \A i \in 1 .. Len(sent[q]) :
                     sent[q][i] = want /\ sent[q][i] >= 1 /\ sent[q][i] <= MAX_NEIGHBORS

C9_Witness ==
    \E q \in Queries :
        /\ Answered(q)
        /\ RequestedCount(req[q].json[1]) > MAX_NEIGHBORS
        /\ sent[q] = <<MAX_NEIGHBORS>>

\* C10: the product id reported for a candidate is the value of the first key
\* present in its raw metadata among productId, product_id, productid.
C10_ProductIdPriority ==
    \A q \in Queries :
        Answered(q) =>
            \A j \in 1 .. Len(resp[q].results) :
                LET e == resp[q].results[j]
                IN Get(e.metadata, "product_id")
                     = FirstPresent(RawMetadata(Raw(q)[e.idx]), PidKeys)

====
